---- MODULE Spec2Model ----
(***************************************************************************)
(* A model of app.py: the Flask service that validates a JSON payload,     *)
(* assembles the feature vectors of the crop and soil models, calls the    *)
(* TFLite interpreters and assembles the response.                         *)
(*                                                                         *)
(* Numbers are fixed-point, in hundredths: 6.5 is 650, 65 is 6500, 100 is  *)
(* 10000.  Every number a payload carries below is a multiple of 0.1, so   *)
(* Python's  x / 10.0  is  x \div 10  on this scale.                       *)
(*                                                                         *)
(* Three specifications share the module:                                  *)
(*   Spec       the service serving one request at a time, each handler    *)
(*              run to completion.  Within one call of predict_* the       *)
(*              interpreter's buffers are written by set_tensor before     *)
(*              invoke reads them and read back right after, so what they  *)
(*              hold between requests is never read: Spec takes a call's   *)
(*              outcome from the interpreter and leaves `tensors` aside;   *)
(*   SpecConc   the threaded server: calls of predict_crop / predict_soil  *)
(*              interleaved at set_tensor / invoke / get_tensor;           *)
(*   SpecInfer  the result assembly of predict_crop / predict_soil over    *)
(*              the output tensors a model file can produce.               *)
(***************************************************************************)
EXTENDS Integers, Sequences, FiniteSets, TLC

VARIABLES
    started,      \* app.run has been reached (load_models has returned)
    load_ok,      \* what load_models returned
    crop_model,   \* the four module globals: "None" or the loaded handle
    soil_model,
    crop_scaler,
    soil_scaler,
    request,      \* Spec: the request being answered
    response,     \* Spec: its response
    calls,        \* Spec: the calls of predict_crop / predict_soil it made
    tensors,      \* SpecConc: the interpreters' input and output buffers
    threads,      \* SpecConc: each request thread inside predict_*
    out_model,    \* SpecInfer: whose output tensor out_tensor is
    out_tensor,   \* SpecInfer: what get_tensor returned
    out_result    \* SpecInfer: what predict_* returned for it

handles == <<started, load_ok, crop_model, soil_model, crop_scaler, soil_scaler>>
httpVars == <<request, response, calls>>
concVars == <<tensors, threads>>
inferVars == <<out_model, out_tensor, out_result>>
vars == <<handles, httpVars, concVars, inferVars>>

----------------------------------------------------------------------------
(* Bounds of the model *)

\* An output tensor may be longer than the label table by up to MaxExtra.
MaxExtra == 1
\* Confidence levels of an output tensor's entries: 0 .. MaxConf.
MaxConf == 2
\* Concurrent request threads of SpecConc.
NumReq == 2

----------------------------------------------------------------------------
(* Program constants *)

CROP_LABELS ==
    << "apple", "banana", "blackgram", "chickpea", "coconut", "coffee",
       "cotton", "grapes", "jute", "kidneybeans", "lentil", "maize",
       "mango", "mothbeans", "mungbean", "muskmelon", "orange", "papaya",
       "pigeonpeas", "pomegranate", "rice", "watermelon" >>

SOIL_CLASSES == << "Low", "Mild", "High" >>

crop_required_fields ==
    << "N", "P", "K", "temperature", "humidity", "ph", "rainfall" >>

soil_required_fields == << "N", "P", "K", "pH" >>

\* data.get('soilPH', 6.5)
DefaultSoilPH == 650
\* if ph_value > 100
PhThreshold == 10000
\* ph_value / 10.0
PhDivisor == 10
\* data.get('nitrogen', 0), data.get('phosphorus', 0), data.get('potassium', 0)
DefaultN == 0
DefaultP == 0
DefaultK == 0
\* data.get('temperature', 25.0)
DefaultTemperature == 2500
\* data.get('humidity', 60.0)
DefaultHumidity == 6000
\* data.get('rainfall', 100.0)
DefaultRainfall == 10000

Artifacts ==
    { "crop_model.tflite", "soil_model.tflite", "crop_scaler.pkl", "soil_scaler.pkl" }

----------------------------------------------------------------------------
(* Python helpers *)

Range(s) == { s[i] : i \in 1..Len(s) }

\* all(field in data for field in fields)
AllIn(fields, data) == \A i \in 1..Len(fields) : fields[i] \in DOMAIN data

\* Mutant of Get: the default is forgotten, a missing key gives 0.
GetWithoutDefault(data, key, default) == IF key \in DOMAIN data THEN data[key] ELSE 0

\* dict.get(key, default)
Get(data, key, default) == IF key \in DOMAIN data THEN data[key] ELSE default

\* d[key] = value on a dict
DictSet(data, key, value) ==
    [ k \in DOMAIN data \cup {key} |-> IF k = key THEN value ELSE data[k] ]

\* np.max(output[0]); the output is not empty
Max(output) ==
    CHOOSE v \in Range(output) : \A w \in Range(output) : w <= v

\* np.argmax(output[0]): the first position of the maximum, from 0
ArgMax(output) ==
    LET m == Max(output)
    IN  (CHOOSE i \in 1..Len(output) :
            /\ output[i] = m
            /\ \A j \in 1..(i - 1) : output[j] # m) - 1

\* Mutant of PyIndexRaises: the index is never checked, so it wraps around.
PyIndexNeverRaises(table, i) == FALSE

\* table[i] on a Python list raises IndexError outside [-len, len)
PyIndexRaises(table, i) == ~(i >= 0 - Len(table) /\ i < Len(table))

\* table[i] on a Python list, for an index that does not raise: a negative
\* index counts from the end
PyIndex(table, i) == table[(i % Len(table)) + 1]

ErrorResult(message) == [ error |-> message ]

----------------------------------------------------------------------------
(* load_models and the startup block *)

\* The module globals before __main__ runs.
InitHandles ==
    /\ started = FALSE
    /\ load_ok = FALSE
    /\ crop_model = "None"
    /\ soil_model = "None"
    /\ crop_scaler = "None"
    /\ soil_scaler = "None"

\* load_models() with the artifacts `present` on disk, then app.run.  The
\* globals are assigned one by one inside the try: the first absent artifact
\* raises, and the ones after it keep None.
load_models(present) ==
    LET cm == "crop_model.tflite" \in present
        sm == cm /\ "soil_model.tflite" \in present
        cs == sm /\ "crop_scaler.pkl" \in present
        ss == cs /\ "soil_scaler.pkl" \in present
    IN  /\ crop_model' = IF cm THEN "Interpreter" ELSE "None"
        /\ soil_model' = IF sm THEN "Interpreter" ELSE "None"
        /\ crop_scaler' = IF cs THEN "Scaler" ELSE "None"
        /\ soil_scaler' = IF ss THEN "Scaler" ELSE "None"
        /\ load_ok' = ss

Main ==
    /\ ~started
    /\ \E present \in SUBSET Artifacts : load_models(present)
    /\ started' = TRUE

----------------------------------------------------------------------------
(* predict_crop and predict_soil *)

\* Lines 67-75, from the output tensor get_tensor returned.  np.argmax of an
\* empty array and a label index outside the table raise, and the except
\* clause turns the exception into the error result.
AssembleCrop(output) ==
    IF Len(output) = 0
    THEN ErrorResult("attempt to get argmax of an empty sequence")
    ELSE LET predicted_class == ArgMax(output)
             confidence == Max(output)
         IN  IF PyIndexRaises(CROP_LABELS, predicted_class)
             THEN ErrorResult("list index out of range")
             ELSE [ predicted_crop |-> PyIndex(CROP_LABELS, predicted_class),
                    confidence |-> confidence,
                    class_index |-> predicted_class ]

AssembleSoil(output) ==
    IF Len(output) = 0
    THEN ErrorResult("attempt to get argmax of an empty sequence")
    ELSE LET predicted_class == ArgMax(output)
             confidence == Max(output)
         IN  IF PyIndexRaises(SOIL_CLASSES, predicted_class)
             THEN ErrorResult("list index out of range")
             ELSE [ predicted_fertility |-> PyIndex(SOIL_CLASSES, predicted_class),
                    confidence |-> confidence,
                    class_index |-> predicted_class ]

\* What the interpreter does with one call: invoke raises, or the output
\* tensor holds a distribution.
RuntimeRaises == [ raises |-> TRUE, output |-> << >> ]

OneHot(len, k) == [ i \in 1..len |-> IF i = k THEN MaxConf ELSE 0 ]

\* The output tensors Spec draws from, for a table of n labels: the first
\* class, the last class, and a maximum beyond the table.
SampleOutputs(n) ==
    { OneHot(n, 1), OneHot(n, n) } \cup { OneHot(n + e, n + e) : e \in 1..MaxExtra }

Outcomes(n) ==
    { RuntimeRaises } \cup { [ raises |-> FALSE, output |-> o ] : o \in SampleOutputs(n) }

\* predict_crop(input_data) run to completion, the interpreter behaving as
\* `outcome`.  The vectors of this model hold numbers only, so np.array does
\* not raise.
predict_crop(input_data, outcome) ==
    IF crop_model = "None"
    THEN ErrorResult("'NoneType' object has no attribute 'get_input_details'")
    ELSE IF crop_scaler = "None"
    THEN ErrorResult("'NoneType' object has no attribute 'transform'")
    ELSE IF outcome.raises
    THEN ErrorResult("interpreter error")
    ELSE AssembleCrop(outcome.output)

predict_soil(input_data, outcome) ==
    IF soil_model = "None"
    THEN ErrorResult("'NoneType' object has no attribute 'get_input_details'")
    ELSE IF soil_scaler = "None"
    THEN ErrorResult("'NoneType' object has no attribute 'transform'")
    ELSE IF outcome.raises
    THEN ErrorResult("interpreter error")
    ELSE AssembleSoil(outcome.output)

----------------------------------------------------------------------------
(* Requests *)

\* The values the payloads of this model carry, one per key, all different.
FieldValue(key) ==
    CASE key = "N" -> 9000
      [] key = "P" -> 4200
      [] key = "K" -> 4300
      [] key = "temperature" -> 2090
      [] key = "humidity" -> 8200
      [] key = "ph" -> 650
      [] key = "rainfall" -> 20290
      [] key = "pH" -> 700
      [] key = "nitrogen" -> 9000
      [] key = "phosphorus" -> 4200
      [] key = "potassium" -> 4300

\* soilPH readings: 6.5, 65, 100, 100.1, 650, 15000, -650.
SoilPHValues == { 650, 6500, 10000, 10010, 65000, 1500000, 0 - 65000 }

\* request.get_json(): a JSON object, or None for the body `null`.
ObjectBody(data) == [ is_object |-> TRUE, data |-> data ]

NoneBody == [ is_object |-> FALSE, data |-> [ k \in {} |-> 0 ] ]

ObjectsOver(keys) == { [ k \in S |-> FieldValue(k) ] : S \in SUBSET keys }

CropBodies ==
    { NoneBody } \cup { ObjectBody(d) : d \in ObjectsOver(Range(crop_required_fields)) }

SoilBodies ==
    { NoneBody } \cup { ObjectBody(d) : d \in ObjectsOver(Range(soil_required_fields)) }

CombinedBodies ==
    { NoneBody } \cup
    { ObjectBody(d) :
        d \in ObjectsOver(Range(crop_required_fields) \cup Range(soil_required_fields)) }

SensorKeys ==
    { "nitrogen", "phosphorus", "potassium", "temperature", "humidity", "rainfall" }

SensorBodies ==
    { NoneBody } \cup
    { ObjectBody(d) : d \in ObjectsOver(SensorKeys) } \cup
    { ObjectBody(DictSet(d, "soilPH", v)) : d \in ObjectsOver(SensorKeys), v \in SoilPHValues }

NoRequest == [ endpoint |-> "none", body |-> NoneBody ]

NoResponse == [ status |-> 0, body |-> [ k \in {} |-> 0 ] ]

\* jsonify(body), status
Respond(status, body, made) ==
    [ response |-> [ status |-> status, body |-> body ], calls |-> made ]

\* except Exception as e: return jsonify({'error': str(e)}), 500
Except500(message, made) == Respond(500, ErrorResult(message), made)

\* One call of predict_crop / predict_soil, as the handler made it.
Call(model, input_data, result) ==
    [ model |-> model, input_data |-> input_data, result |-> result ]

----------------------------------------------------------------------------
(* The request handlers, each from get_json to the response *)

\* f'Missing ... fields: {fields}': the message names the whole list.
MissingFields(text, fields) ==
    [ error |-> [ text |-> text, fields |-> fields ] ]

\* Mutant of crop_features: ph and rainfall change places.
crop_features_swapped(data) ==
    << data["N"], data["P"], data["K"],
       data["temperature"], data["humidity"],
       data["rainfall"], data["ph"] >>

\* The crop model's feature vector, as each handler that calls predict_crop
\* writes it out (lines 140-144, 224-228, 283-287).
crop_features(data) ==
    << data["N"], data["P"], data["K"],
       data["temperature"], data["humidity"],
       data["ph"], data["rainfall"] >>

\* The soil model's feature vector (lines 178, 232, 290).
soil_features(data) == << data["N"], data["P"], data["K"], data["pH"] >>

\* POST /predict/crop
predict_crop_endpoint(body, outcome) ==
    IF ~body.is_object
    THEN Except500("argument of type 'NoneType' is not iterable", << >>)
    ELSE LET data == body.data
             required_fields == crop_required_fields
         IN  IF ~AllIn(required_fields, data)
             THEN Respond(400, MissingFields("Missing required fields", required_fields), << >>)
             ELSE LET input_features == crop_features(data)
                      result == predict_crop(input_features, outcome)
                      made == << Call("crop", input_features, result) >>
                  IN  IF "error" \in DOMAIN result
                      THEN Respond(500, result, made)
                      ELSE Respond(200,
                                   [ success |-> TRUE, prediction |-> result,
                                     input_data |-> data ],
                                   made)

\* POST /predict/soil
predict_soil_endpoint(body, outcome) ==
    IF ~body.is_object
    THEN Except500("argument of type 'NoneType' is not iterable", << >>)
    ELSE LET data == body.data
             required_fields == soil_required_fields
         IN  IF ~AllIn(required_fields, data)
             THEN Respond(400, MissingFields("Missing required fields", required_fields), << >>)
             ELSE LET input_features == soil_features(data)
                      result == predict_soil(input_features, outcome)
                      made == << Call("soil", input_features, result) >>
                  IN  IF "error" \in DOMAIN result
                      THEN Respond(500, result, made)
                      ELSE Respond(200,
                                   [ success |-> TRUE, prediction |-> result,
                                     input_data |-> data ],
                                   made)

\* Mutant of ReconcilePh: only pH is copied to ph, as in the docstring's payload.
ReconcilePhOneWay(data) ==
    IF "pH" \in DOMAIN data /\ "ph" \notin DOMAIN data
    THEN DictSet(data, "ph", data["pH"])
    ELSE data

\* Lines 211-215: the key of pH that is absent gets the value of the one
\* that is present.
ReconcilePh(data) ==
    IF "pH" \in DOMAIN data /\ "ph" \notin DOMAIN data
    THEN DictSet(data, "ph", data["pH"])
    ELSE IF "ph" \in DOMAIN data /\ "pH" \notin DOMAIN data
    THEN DictSet(data, "pH", data["ph"])
    ELSE data

\* POST /predict/combined
predict_combined_endpoint(body, crop_outcome, soil_outcome) ==
    IF ~body.is_object
    THEN Except500("argument of type 'NoneType' is not iterable", << >>)
    ELSE LET crop_fields == crop_required_fields
             soil_fields == soil_required_fields
             data == ReconcilePh(body.data)
         IN  IF ~AllIn(crop_fields, data)
             THEN Respond(400, MissingFields("Missing crop fields", crop_fields), << >>)
             ELSE IF ~AllIn(soil_fields, data)
             THEN Respond(400, MissingFields("Missing soil fields", soil_fields), << >>)
             ELSE LET crop_vector == crop_features(data)
                      crop_result == predict_crop(crop_vector, crop_outcome)
                      soil_vector == soil_features(data)
                      soil_result == predict_soil(soil_vector, soil_outcome)
                  IN  Respond(200,
                              [ success |-> TRUE,
                                crop_prediction |-> crop_result,
                                soil_prediction |-> soil_result,
                                input_data |-> data ],
                              << Call("crop", crop_vector, crop_result),
                                 Call("soil", soil_vector, soil_result) >>)

\* Mutant of SensorPh: the magnitude is compared.
SensorPhMagnitude(ph_value) ==
    IF ph_value > PhThreshold \/ 0 - ph_value > PhThreshold
    THEN ph_value \div PhDivisor
    ELSE ph_value

\* Lines 266-268: the pH a sensor reading stands for.
SensorPh(ph_value) ==
    IF ph_value > PhThreshold THEN ph_value \div PhDivisor ELSE ph_value

\* POST /sensor-data
process_sensor_data(body, crop_outcome, soil_outcome) ==
    IF ~body.is_object
    THEN Except500("'NoneType' object has no attribute 'get'", << >>)
    ELSE LET data == body.data
             ph_value == SensorPh(Get(data, "soilPH", DefaultSoilPH))
             prediction_data ==
                 [ N |-> Get(data, "nitrogen", DefaultN),
                   P |-> Get(data, "phosphorus", DefaultP),
                   K |-> Get(data, "potassium", DefaultK),
                   pH |-> ph_value,
                   ph |-> ph_value,
                   temperature |-> Get(data, "temperature", DefaultTemperature),
                   humidity |-> Get(data, "humidity", DefaultHumidity),
                   rainfall |-> Get(data, "rainfall", DefaultRainfall) ]
             crop_vector == crop_features(prediction_data)
             crop_result == predict_crop(crop_vector, crop_outcome)
             soil_vector == soil_features(prediction_data)
             soil_result == predict_soil(soil_vector, soil_outcome)
         IN  Respond(200,
                     [ success |-> TRUE,
                       sensor_data |-> data,
                       recommendations |->
                           [ crop |-> crop_result, soil_fertility |-> soil_result ],
                       processed_values |-> prediction_data ],
                     << Call("crop", crop_vector, crop_result),
                        Call("soil", soil_vector, soil_result) >>)

\* GET /
home ==
    Respond(200,
            [ status |-> "API is running",
              endpoints |->
                  [ crop_prediction |-> "/predict/crop",
                    soil_prediction |-> "/predict/soil",
                    combined_prediction |-> "/predict/combined" ] ],
            << >>)

----------------------------------------------------------------------------
(* Spec: the service, one request at a time *)

\* The server is up and idle.
Idle == started /\ request = NoRequest

\* It takes a request and answers it.
Serve(endpoint, body, answer) ==
    /\ request' = [ endpoint |-> endpoint, body |-> body ]
    /\ response' = answer.response
    /\ calls' = answer.calls
    /\ UNCHANGED <<handles, concVars, inferVars>>

\* scaler.transform(input_array): the pre-fitted transform of the named
\* scaler applied to a vector, kept as the application itself.
Transform(model, input_data) == [ scaler |-> model, of |-> input_data ]

\* No result yet.
Pending == [ pending |-> TRUE ]

IdleThread ==
    [ pc |-> "idle", model |-> "none", input_data |-> << >>,
      scaled_input |-> Transform("none", << >>), result |-> Pending ]

\* allocate_tensors(): the buffers of a fresh interpreter.
Allocated == [ input |-> Transform("none", << >>), output |-> << >> ]

IdleConc ==
    /\ tensors = [ m \in {"crop", "soil"} |-> Allocated ]
    /\ threads = [ t \in 1..NumReq |-> IdleThread ]

IdleInfer ==
    /\ out_model = "none"
    /\ out_tensor = << >>
    /\ out_result = Pending

Init ==
    /\ InitHandles
    /\ request = NoRequest
    /\ response = NoResponse
    /\ calls = << >>
    /\ IdleConc
    /\ IdleInfer

Startup ==
    /\ Main
    /\ UNCHANGED <<httpVars, concVars, inferVars>>

\* The response has been sent: the handler's locals are gone.
Sent ==
    /\ request # NoRequest
    /\ request' = NoRequest
    /\ response' = NoResponse
    /\ calls' = << >>
    /\ UNCHANGED <<handles, concVars, inferVars>>

Home == Idle /\ Serve("/", NoneBody, home)

PredictCropEndpoint ==
    /\ Idle
    /\ \E body \in CropBodies, outcome \in Outcomes(Len(CROP_LABELS)) :
           Serve("/predict/crop", body, predict_crop_endpoint(body, outcome))

PredictSoilEndpoint ==
    /\ Idle
    /\ \E body \in SoilBodies, outcome \in Outcomes(Len(SOIL_CLASSES)) :
           Serve("/predict/soil", body, predict_soil_endpoint(body, outcome))

PredictCombinedEndpoint ==
    /\ Idle
    /\ \E body \in CombinedBodies,
          crop_outcome \in Outcomes(Len(CROP_LABELS)),
          soil_outcome \in Outcomes(Len(SOIL_CLASSES)) :
           Serve("/predict/combined", body,
                 predict_combined_endpoint(body, crop_outcome, soil_outcome))

ProcessSensorData ==
    /\ Idle
    /\ \E body \in SensorBodies,
          crop_outcome \in Outcomes(Len(CROP_LABELS)),
          soil_outcome \in Outcomes(Len(SOIL_CLASSES)) :
           Serve("/sensor-data", body,
                 process_sensor_data(body, crop_outcome, soil_outcome))

Next ==
    \/ Startup
    \/ Home
    \/ PredictCropEndpoint
    \/ PredictSoilEndpoint
    \/ PredictCombinedEndpoint
    \/ ProcessSensorData
    \/ Sent

Spec == Init /\ [][Next]_vars

----------------------------------------------------------------------------
(* Properties of Spec *)

Object(endpoint) == request.endpoint = endpoint /\ request.body.is_object

Absent(fields) == { f \in Range(fields) : f \notin DOMAIN request.body.data }

RequiredOf(endpoint) ==
    IF endpoint = "/predict/crop" THEN crop_required_fields ELSE soil_required_fields

\* C1: on /predict/crop and /predict/soil, a payload with a required field
\* absent is answered 400 without any inference, and the fields the error
\* lists are exactly the required fields absent from the payload.
C1_MissingFieldsAreTheAbsentOnes ==
    \A endpoint \in { "/predict/crop", "/predict/soil" } :
        (Object(endpoint) /\ Absent(RequiredOf(endpoint)) # {}) =>
            /\ response.status = 400
            /\ calls = << >>
            /\ Range(response.body.error.fields) = Absent(RequiredOf(endpoint))

\* The value of a named field of the request: the payload's on /predict/crop
\* and /predict/soil, the payload's with ph and pH standing in for each other
\* on /predict/combined, the processed value on /sensor-data.
Named(field) ==
    IF request.endpoint = "/sensor-data"
    THEN response.body.processed_values[field]
    ELSE LET data == request.body.data
         IN  IF field \in DOMAIN data THEN data[field]
             ELSE IF field = "ph" THEN data["pH"]
             ELSE data["ph"]

\* C2: every crop inference gets the 7 values [N, P, K, temperature,
\* humidity, ph, rainfall] of the request in that order, and every soil
\* inference the 4 values [N, P, K, pH].
C2_FeatureVectorOrder ==
    \A i \in 1..Len(calls) :
        /\ calls[i].model = "crop" =>
               calls[i].input_data =
                   << Named("N"), Named("P"), Named("K"), Named("temperature"),
                      Named("humidity"), Named("ph"), Named("rainfall") >>
        /\ calls[i].model = "soil" =>
               calls[i].input_data = << Named("N"), Named("P"), Named("K"), Named("pH") >>

\* A combined request carrying both ph and pH has called both models.
C2_Witness ==
    /\ Object("/predict/combined")
    /\ { "ph", "pH" } \subseteq DOMAIN request.body.data
    /\ Len(calls) = 2
    /\ calls[1].input_data[6] = 650
    /\ calls[2].input_data[4] = 700

OnlyOnePh ==
    /\ Object("/predict/combined")
    /\ { "N", "P", "K", "temperature", "humidity", "rainfall" } \subseteq DOMAIN request.body.data
    /\ ("ph" \in DOMAIN request.body.data) # ("pH" \in DOMAIN request.body.data)

\* C3: a combined request with the six other fields and exactly one of ph
\* and pH passes validation, the echoed payload has ph = pH = the value
\* given, and that value is the crop vector's ph and the soil vector's pH.
C3_CombinedReconcilesPh ==
    OnlyOnePh =>
        LET data == request.body.data
            given == IF "ph" \in DOMAIN data THEN data["ph"] ELSE data["pH"]
        IN  /\ response.status = 200
            /\ response.body.input_data["ph"] = given
            /\ response.body.input_data["pH"] = given
            /\ Len(calls) = 2
            /\ calls[1].model = "crop" /\ calls[1].input_data[6] = given
            /\ calls[2].model = "soil" /\ calls[2].input_data[4] = given

\* A combined request with ph alone has been answered.
C3_Witness ==
    /\ OnlyOnePh
    /\ "ph" \in DOMAIN request.body.data
    /\ response.status = 200
    /\ response.body.input_data["pH"] = 650

\* C4: on /sensor-data, soilPH = 65 gives pH = ph = 6.5 in the processed
\* values and in both vectors, and soilPH = 6.5 gives 6.5.
C4_SensorPh65Is6point5 ==
    (Object("/sensor-data") /\ "soilPH" \in DOMAIN request.body.data
        /\ request.body.data["soilPH"] \in { 6500, 650 }) =>
        /\ response.body.processed_values["pH"] = 650
        /\ response.body.processed_values["ph"] = 650
        /\ calls[1].input_data[6] = 650
        /\ calls[2].input_data[4] = 650

PredictionEndpoints ==
    { "/predict/crop", "/predict/soil", "/predict/combined", "/sensor-data" }

\* C5: a prediction request one of whose inference calls failed is answered
\* 500 with the failure's message, never with success.
C5_InferenceFailureIs500 ==
    \A i \in 1..Len(calls) :
        "error" \in DOMAIN calls[i].result =>
            /\ response.status = 500
            /\ "success" \notin DOMAIN response.body
            /\ response.body = ErrorResult(calls[i].result.error)

\* C8: the service starts whatever load_models returned, and after a failed
\* load no prediction request succeeds: every inference it makes fails.
C8_NoPredictionAfterFailedLoad ==
    (started /\ ~load_ok /\ request.endpoint \in PredictionEndpoints) =>
        \A i \in 1..Len(calls) : "error" \in DOMAIN calls[i].result

SensorField ==
    [ nitrogen |-> "N", phosphorus |-> "P", potassium |-> "K",
      temperature |-> "temperature", humidity |-> "humidity", rainfall |-> "rainfall" ]

FixedDefault ==
    [ nitrogen |-> 0, phosphorus |-> 0, potassium |-> 0,
      temperature |-> 2500, humidity |-> 6000, rainfall |-> 10000 ]

\* C9: /sensor-data rejects no object payload, and each of nitrogen,
\* phosphorus, potassium, temperature, humidity, rainfall is processed and
\* passed to inference with its supplied value, or its fixed default
\* (0, 0, 0, 25.0, 60.0, 100.0) when it is missing.
C9_SensorDefaults ==
    Object("/sensor-data") =>
        /\ response.status = 200
        /\ Len(calls) = 2
        /\ \A key \in DOMAIN SensorField :
               LET used == IF key \in DOMAIN request.body.data
                           THEN request.body.data[key]
                           ELSE FixedDefault[key]
               IN  /\ response.body.processed_values[SensorField[key]] = used
                   /\ \E p \in 1..7 :
                          /\ crop_required_fields[p] = SensorField[key]
                          /\ calls[1].input_data[p] = used
                   /\ key \in { "nitrogen", "phosphorus", "potassium" } =>
                          \E p \in 1..3 :
                              /\ soil_required_fields[p] = SensorField[key]
                              /\ calls[2].input_data[p] = used

\* A sensor payload with humidity alone has been processed.
C9_Witness ==
    /\ Object("/sensor-data")
    /\ DOMAIN request.body.data = { "humidity" }
    /\ response.body.processed_values["temperature"] = 2500
    /\ response.body.processed_values["humidity"] = 8200

Reading == Get(request.body.data, "soilPH", 650)

----------------------------------------------------------------------------
(* SpecInfer: the result assembly, over the output tensors of a model file *)

\* An output tensor of the given length with at most two entries above 0.
TwoPeaks(len, k, j, a, b) ==
    [ i \in 1..len |-> IF i = k THEN a ELSE IF i = j THEN b ELSE 0 ]

\* The output tensors of a model file meant for a table of n labels: any
\* length up to n + MaxExtra, the maximum anywhere, alone or tied.
OutputTensors(n) ==
    { << >> } \cup
    UNION { { TwoPeaks(len, k, j, a, b) :
                k \in 1..len, j \in 1..len, a \in 0..MaxConf, b \in 0..MaxConf } :
            len \in 1..(n + MaxExtra) }

Loaded ==
    /\ started = TRUE
    /\ load_ok = TRUE
    /\ crop_model = "Interpreter"
    /\ soil_model = "Interpreter"
    /\ crop_scaler = "Scaler"
    /\ soil_scaler = "Scaler"

InitInfer ==
    /\ Loaded
    /\ request = NoRequest
    /\ response = NoResponse
    /\ calls = << >>
    /\ IdleConc
    /\ out_model \in { "crop", "soil" }
    /\ out_tensor \in OutputTensors(IF out_model = "crop"
                                    THEN Len(CROP_LABELS) ELSE Len(SOIL_CLASSES))
    /\ out_result = Pending

\* predict_crop from get_tensor to its return
ReturnCrop ==
    /\ out_model = "crop"
    /\ out_result = Pending
    /\ out_result' = AssembleCrop(out_tensor)
    /\ UNCHANGED <<handles, httpVars, concVars, out_model, out_tensor>>

\* predict_soil from get_tensor to its return
ReturnSoil ==
    /\ out_model = "soil"
    /\ out_result = Pending
    /\ out_result' = AssembleSoil(out_tensor)
    /\ UNCHANGED <<handles, httpVars, concVars, out_model, out_tensor>>

NextInfer == ReturnCrop \/ ReturnSoil

SpecInfer == InitInfer /\ [][NextInfer]_vars

OutTable == IF out_model = "crop" THEN CROP_LABELS ELSE SOIL_CLASSES

\* Position p of the output tensor holds its maximum, and none before it does.
FirstMaximum(p) ==
    /\ \A q \in 1..Len(out_tensor) : out_tensor[q] <= out_tensor[p]
    /\ \A q \in 1..(p - 1) : out_tensor[q] < out_tensor[p]

\* C6: a result predict_crop or predict_soil returns without an error has
\* its class_index within the label table and the label at that index, and
\* an output whose maximum lies beyond the table gives an error.
C6_ClassIndexWithinTable ==
    out_result # Pending =>
        /\ "error" \notin DOMAIN out_result =>
               /\ out_result.class_index \in 0..(Len(OutTable) - 1)
               /\ OutTable[out_result.class_index + 1] =
                      IF out_model = "crop"
                      THEN out_result.predicted_crop
                      ELSE out_result.predicted_fertility
        /\ (\E p \in (Len(OutTable) + 1)..Len(out_tensor) : FirstMaximum(p)) =>
               "error" \in DOMAIN out_result

\* The crop model's output peaks right after the last label: an error.
C6_Witness ==
    /\ out_model = "crop"
    /\ Len(out_tensor) > Len(CROP_LABELS)
    /\ FirstMaximum(Len(CROP_LABELS) + 1)
    /\ "error" \in DOMAIN out_result

----------------------------------------------------------------------------
(* SpecConc: request threads inside predict_crop and predict_soil *)

\* Two feature vectors: a full payload's and the sensor defaults'.
SampleVectors(model) ==
    IF model = "crop"
    THEN { << 9000, 4200, 4300, 2090, 8200, 650, 20290 >>,
           << 0, 0, 0, 2500, 6000, 650, 10000 >> }
    ELSE { << 9000, 4200, 4300, 700 >>, << 0, 0, 0, 650 >> }

TableOf(model) == IF model = "crop" THEN CROP_LABELS ELSE SOIL_CLASSES

\* interpreter.invoke(): the output the model computes from its input buffer.
\* The loaded model is a fixed function of the input; this one tells the
\* sample vectors apart by their first feature.
Infer(model, input) ==
    IF Len(input.of) > 0 /\ input.of[1] = 0
    THEN OneHot(Len(TableOf(model)), 1)
    ELSE OneHot(Len(TableOf(model)), Len(TableOf(model)))

Assemble(model, output) ==
    IF model = "crop" THEN AssembleCrop(output) ELSE AssembleSoil(output)

ModelOf(model) == IF model = "crop" THEN crop_model ELSE soil_model

ScalerOf(model) == IF model = "crop" THEN crop_scaler ELSE soil_scaler

InitConc ==
    /\ InitHandles
    /\ request = NoRequest
    /\ response = NoResponse
    /\ calls = << >>
    /\ IdleConc
    /\ IdleInfer

\* A handler thread calls predict_crop or predict_soil.
Enter(t) ==
    /\ started
    /\ threads[t].pc = "idle"
    /\ \E model \in { "crop", "soil" } :
         \E input_data \in SampleVectors(model) :
           threads' = [ threads EXCEPT ![t] =
                          [ IdleThread EXCEPT !.pc = "prepare", !.model = model,
                                              !.input_data = input_data ] ]
    /\ UNCHANGED <<handles, httpVars, tensors, inferVars>>

\* get_input_details, get_output_details, np.array, scaler.transform
Prepare(t) ==
    /\ threads[t].pc = "prepare"
    /\ LET th == threads[t]
       IN  threads' = [ threads EXCEPT ![t] =
             IF ModelOf(th.model) = "None"
             THEN [ th EXCEPT !.pc = "done",
                      !.result = ErrorResult("'NoneType' object has no attribute 'get_input_details'") ]
             ELSE IF ScalerOf(th.model) = "None"
             THEN [ th EXCEPT !.pc = "done",
                      !.result = ErrorResult("'NoneType' object has no attribute 'transform'") ]
             ELSE [ th EXCEPT !.pc = "set_tensor",
                      !.scaled_input = Transform(th.model, th.input_data) ] ]
    /\ UNCHANGED <<handles, httpVars, tensors, inferVars>>

\* interpreter.set_tensor(input index, scaled_input)
SetTensor(t) ==
    /\ threads[t].pc = "set_tensor"
    /\ tensors' = [ tensors EXCEPT ![threads[t].model].input = threads[t].scaled_input ]
    /\ threads' = [ threads EXCEPT ![t].pc = "invoke" ]
    /\ UNCHANGED <<handles, httpVars, inferVars>>

\* interpreter.invoke()
Invoke(t) ==
    /\ threads[t].pc = "invoke"
    /\ tensors' = [ tensors EXCEPT ![threads[t].model].output =
                      Infer(threads[t].model, tensors[threads[t].model].input) ]
    /\ threads' = [ threads EXCEPT ![t].pc = "get_tensor" ]
    /\ UNCHANGED <<handles, httpVars, inferVars>>

\* interpreter.get_tensor(output index), argmax, the result
GetTensor(t) ==
    /\ threads[t].pc = "get_tensor"
    /\ threads' = [ threads EXCEPT ![t].pc = "done",
                      ![t].result = Assemble(threads[t].model, tensors[threads[t].model].output) ]
    /\ UNCHANGED <<handles, httpVars, tensors, inferVars>>

\* predict_* has returned and the handler has answered.
Leave(t) ==
    /\ threads[t].pc = "done"
    /\ threads' = [ threads EXCEPT ![t] = IdleThread ]
    /\ UNCHANGED <<handles, httpVars, tensors, inferVars>>

NextConc ==
    \/ Startup
    \/ \E t \in 1..NumReq :
         \/ Enter(t)
         \/ Prepare(t)
         \/ SetTensor(t)
         \/ Invoke(t)
         \/ GetTensor(t)
         \/ Leave(t)

SpecConc == InitConc /\ [][NextConc]_vars

\* C7: under every interleaving of the threads' set_tensor, invoke and
\* get_tensor steps, the prediction a call returns is the one the model
\* computes from that call's own feature vector.
C7_PredictionFromOwnVector ==
    \A t \in 1..NumReq :
        (threads[t].pc = "done" /\ "error" \notin DOMAIN threads[t].result) =>
            threads[t].result =
                Assemble(threads[t].model,
                         Infer(threads[t].model,
                               Transform(threads[t].model, threads[t].input_data)))

====
